---- MODULE Spec2Model ----
(***************************************************************************)
(* MosaicButton (src/src/components/MosaicButton.tsx): the pointer         *)
(* handlers, the canvas effect (resizeCanvas, render, cleanup) and the     *)
(* per-frame particle simulation.  The file holds two copies of the        *)
(* component whose handlers and effect are the same statement for          *)
(* statement; the model is of that shared code.                            *)
(* ServiceIcon (src/unnamed/part_000) is the icon resolver the button      *)
(* renders when it is given an iconName.                                   *)
(*                                                                         *)
(* Numbers.  life and decay are IEEE-754 doubles.  Every decay the model   *)
(* uses is a multiple of 2^-59, life starts at 1.0 and a rounded           *)
(* difference of two multiples of 2^-59 is one again, so a double v is     *)
(* held exactly as the integer v * 2^59, split in two limbs                *)
(* [hi, lo] = hi * 2^30 + lo with 0 <= lo < 2^30 (hi < 0 for a negative    *)
(* value).  Pointer coordinates and random offsets are drawn from          *)
(* integers, on which the code's floor, square and sqrt-comparison are     *)
(* exact.                                                                  *)
(***************************************************************************)
EXTENDS Integers, Sequences, FiniteSets, TLC

VARIABLES
    surface,           \* "ok" | "nocanvas" | "noctx": canvasRef.current / getContext('2d')
    containerAvail,    \* containerRef.current is an element
    phase,             \* "rendered" (effect not run yet) | "mounted" | "unmounted"
    layout,            \* the container's bounding box / layout box (host state)
    canvasSize,        \* canvas.width, canvas.height
    position,          \* useState position
    opacity,           \* useState opacity
    mousePos,          \* mousePos.current
    isHovering,        \* isHovering.current
    squares,           \* squares.current
    animationFrameId,  \* animationFrameId.current
    pending,           \* handles in the host's list of frame callbacks
    resizeListener,    \* resizeCanvas is registered on window
    painted,           \* the fillRect calls issued since the last clearRect
    attempt,           \* locals of the spawn attempt of the latest render, or NoAttempt
    removed,           \* number of splice calls of the latest render
    ticks,             \* frame callbacks run, where the specification counts them
    entered,           \* history: handleMouseEnter has run
    since,             \* history: the latest of "mount", a "leave", a "move" that wrote
    hoverBy,           \* history: the latest of "mount", an "enter", a "leave"
    iconProps,         \* the props of the latest ServiceIcon call, or NoProps
    icon               \* what that call returned

vars == <<surface, containerAvail, phase, layout, canvasSize, position, opacity,
          mousePos, isHovering, squares, animationFrameId, pending,
          resizeListener, painted, attempt, removed, ticks, entered, since,
          hoverBy, iconProps, icon>>

---------------------------------------------------------------------------
(* Doubles as multiples of 2^-59 *)

Limb == 2^30

Dbl(h, l) == [hi |-> h, lo |-> l]

\* v <= 0
LeqZero(v) == v.hi < 0 \/ (v.hi = 0 /\ v.lo = 0)

\* a <= b
DblLeq(a, b) == a.hi < b.hi \/ (a.hi = b.hi /\ a.lo <= b.lo)

\* the real number a - b
SubExact(a, b) ==
    LET l == a.lo - b.lo
        borrow == IF l < 0 THEN 1 ELSE 0
    IN  Dbl(a.hi - b.hi - borrow, l + borrow * Limb)

\* the weight, in units of 2^-59, of the last of the 53 significant bits of a
\* positive v <= 1.0: v < 2^53 units is held exactly
Ulp(v) ==
    IF v.hi < 2^23 THEN 1
    ELSE IF v.hi < 2^24 THEN 2
    ELSE IF v.hi < 2^25 THEN 4
    ELSE IF v.hi < 2^26 THEN 8
    ELSE IF v.hi < 2^27 THEN 16
    ELSE IF v.hi < 2^28 THEN 32
    ELSE IF v.hi < 2^29 THEN 64
    ELSE 128

\* hi * 2^30 + lo for 0 <= lo <= 2^30
Carry(hi, lo) == IF lo = Limb THEN Dbl(hi + 1, 0) ELSE Dbl(hi, lo)

\* v rounded to a multiple of q, ties to the even multiple; rem = v.lo % q
RoundLo(v, q, rem) ==
    IF \/ 2 * rem > q
       \/ (2 * rem = q /\ ((v.lo - rem) \div q) % 2 = 1)
    THEN Carry(v.hi, v.lo - rem + q)
    ELSE Dbl(v.hi, v.lo - rem)

RoundTo(v, q) == IF q = 1 THEN v ELSE RoundLo(v, q, v.lo % q)

\* a positive real rounded to 53 significant bits, ties to even
Round53(v) == RoundTo(v, Ulp(v))

\* the double nearest to the real e.  A result <= 0 keeps its sign under
\* rounding and the code only tests it against 0, so it is left unrounded.
FRound(e) == IF LeqZero(e) THEN e ELSE Round53(e)

\* the double a - b for 0 < a <= 1.0, b > 0
FSub(a, b) == FRound(SubExact(a, b))

\* the double opacity * life, in units of 2^-61, for an opacity that is a power
\* of two (0.25 or 0.5): the product is exact.
FMul(op, life) ==
    LET k == op.hi \div (2^27)
        l == k * life.lo
    IN  Dbl(k * life.hi + l \div Limb, l % Limb)

---------------------------------------------------------------------------
(* Program constants and inputs *)

gridSize == 40
radius == 200
Sentinel == [x |-> -1000, y |-> -1000]
InitialPosition == [x |-> -100, y |-> -100]
DefaultCanvas == [w |-> 300, h |-> 150]

LifeOne == Dbl(2^29, 0)                      \* 1.0

\* Math.random() * 0.03 + 0.01
Decay001  == Dbl(5368709, 128849019)         \* Math.random() = 0: 0.01
Decay0125 == Dbl(6710886, 429496730)         \* 0x1.5555555555558p-4: 0.0125
Decay025  == Dbl(13421772, 858993460)        \* 0.5: 0.025
Decay04   == Dbl(21474836, 515396072)        \* 1 - 2^-53: 0.039999999999999994
Decay005  == Dbl(26843545, 644245096)        \* 0.05, the constructed particle

\* Math.random() * 0.5 + 0.2
Opacity025 == Dbl(2^27, 0)                   \* Math.random() = 0.1: 0.25
Opacity05  == Dbl(2^28, 0)                   \* Math.random() = 0.6: 0.5

NoAttempt == [made |-> FALSE]

\* no ServiceIcon call yet: MosaicButton calls it only with an iconName
NoProps == [called |-> FALSE]

\* the null a component returns to render nothing
Null == [element |-> "null"]

\* the container's box at the first commit, and the boxes a window resize gives it
InitialLayout == [left |-> 8, top |-> 16, w |-> 400, h |-> 200]
Layouts == { InitialLayout, [left |-> 8, top |-> 16, w |-> 800, h |-> 300] }

\* e.clientX, e.clientY of a pointer event over the container
ClientPoints == { [x |-> 108, y |-> 116] }

\* (Math.random() - 0.5) * radius * 2, for both axes
Offsets == { [x |-> 150, y |-> -30], [x |-> -200, y |-> -200] }

\* the random numbers one run of render may consume
Draw(sp, off, op, dec) ==
    [spawn |-> sp, offX |-> off.x, offY |-> off.y, opacity |-> op, decay |-> dec]

---------------------------------------------------------------------------
(* ServiceIcon (src/unnamed/part_000) *)

\* the element <Component size={size} /> of an icon component of the library
IconElement(component, size) == [element |-> component, size |-> size]

\* faulty variant: an unknown name falls back to the first icon
ServiceIconFallback(name, size) ==
    IF name = "OpenAI" THEN IconElement("OpenAI", size)
    ELSE IF name = "Gemini" THEN IconElement("Gemini", size)
    ELSE IconElement("Claude", size)

ServiceIcon(name, size) ==
    IF name = "Claude" THEN IconElement("Claude", size)
    ELSE IF name = "OpenAI" THEN IconElement("OpenAI", size)
    ELSE IF name = "Gemini" THEN IconElement("Gemini", size)
    ELSE Null

\* a render of <ServiceIcon name={name} size={size} />
RenderIcon(name, size) ==
    /\ iconProps' = [called |-> TRUE, name |-> name, size |-> size]
    /\ icon' = ServiceIcon(name, size)
    /\ UNCHANGED <<surface, containerAvail, phase, layout, canvasSize, position,
                   opacity, mousePos, isHovering, squares, animationFrameId, pending,
                   resizeListener, painted, attempt, removed, ticks, entered, since,
                   hoverBy>>

---------------------------------------------------------------------------
(* Pointer handlers *)

\* the handlers are those of the committed element; pointer events reach them
\* once the effect has run and until the element is removed
Rendered == phase = "mounted"

\* faulty variant: the client coordinates are stored as they are, and the
\* container is not looked at
handleMouseMoveClient(e) ==
    /\ Rendered
    /\ position' = [x |-> e.x, y |-> e.y]
    /\ opacity' = 1
    /\ mousePos' = [x |-> e.x, y |-> e.y]
    /\ since' = "move"
    /\ UNCHANGED <<iconProps, icon, hoverBy, surface, containerAvail, phase, layout, canvasSize, isHovering,
                   squares, animationFrameId, pending, resizeListener, painted,
                   attempt, removed, ticks, entered>>

handleMouseMove(e) ==
    /\ Rendered
    /\ IF ~containerAvail
       THEN UNCHANGED <<position, opacity, mousePos, since>>
       ELSE LET x == e.x - layout.left
                y == e.y - layout.top
            IN  /\ position' = [x |-> x, y |-> y]
                /\ opacity' = 1
                /\ mousePos' = [x |-> x, y |-> y]
                /\ since' = "move"
    /\ UNCHANGED <<iconProps, icon, hoverBy, surface, containerAvail, phase, layout, canvasSize, isHovering,
                   squares, animationFrameId, pending, resizeListener, painted,
                   attempt, removed, ticks, entered>>

\* faulty variant: the enter handler sets the flag and not the visibility
handleMouseEnterFlagOnly ==
    /\ Rendered
    /\ isHovering' = TRUE
    /\ entered' = TRUE
    /\ hoverBy' = "enter"
    /\ UNCHANGED <<iconProps, icon, surface, containerAvail, phase, layout, canvasSize,
                   position, opacity, mousePos, squares, animationFrameId, pending,
                   resizeListener, painted, attempt, removed, ticks, since>>

handleMouseEnter ==
    /\ Rendered
    /\ opacity' = 1
    /\ isHovering' = TRUE
    /\ entered' = TRUE
    /\ hoverBy' = "enter"
    /\ UNCHANGED <<iconProps, icon, surface, containerAvail, phase, layout, canvasSize, position,
                   mousePos, squares, animationFrameId, pending, resizeListener,
                   painted, attempt, removed, ticks, since>>

\* faulty variant: the leave handler clears the flag only
handleMouseLeaveKeepsPos ==
    /\ Rendered
    /\ opacity' = 0
    /\ isHovering' = FALSE
    /\ since' = "leave"
    /\ hoverBy' = "leave"
    /\ UNCHANGED <<iconProps, icon, surface, containerAvail, phase, layout, canvasSize, position,
                   mousePos, squares, animationFrameId, pending, resizeListener,
                   painted, attempt, removed, ticks, entered>>

handleMouseLeave ==
    /\ Rendered
    /\ opacity' = 0
    /\ isHovering' = FALSE
    /\ mousePos' = Sentinel
    /\ since' = "leave"
    /\ hoverBy' = "leave"
    /\ UNCHANGED <<iconProps, icon, surface, containerAvail, phase, layout, canvasSize, position,
                   squares, animationFrameId, pending, resizeListener, painted,
                   attempt, removed, ticks, entered>>

---------------------------------------------------------------------------
(* The canvas effect *)

\* faulty variant: width and height exchanged
resizeCanvasSwapped(box) ==
    IF containerAvail THEN [w |-> box.h, h |-> box.w] ELSE canvasSize

\* resizeCanvas: the canvas size after the call
resizeCanvas(box) ==
    IF containerAvail THEN [w |-> box.w, h |-> box.h] ELSE canvasSize

\* faulty variant: no circular mask: every candidate is accepted
SpawnAttemptNoMask(draw) ==
    [made |-> TRUE, x |-> mousePos.x, y |-> mousePos.y,
     gridX |-> ((mousePos.x + draw.offX) \div gridSize) * gridSize,
     gridY |-> ((mousePos.y + draw.offY) \div gridSize) * gridSize,
     accepted |-> TRUE]

\* faulty variant: the attempt reads the render-state position, which a leave keeps
SpawnAttemptFromPosition(draw) ==
    LET x == position.x
        y == position.y
        gridX == ((x + draw.offX) \div gridSize) * gridSize
        gridY == ((y + draw.offY) \div gridSize) * gridSize
        dx == gridX + gridSize \div 2 - x
        dy == gridY + gridSize \div 2 - y
    IN  [made |-> TRUE, x |-> x, y |-> y, gridX |-> gridX, gridY |-> gridY,
         accepted |-> dx * dx + dy * dy < radius * radius]

\* faulty variant: the distance is taken from the cell's corner, not its centre
SpawnAttemptCorner(draw) ==
    LET x == mousePos.x
        y == mousePos.y
        gridX == ((x + draw.offX) \div gridSize) * gridSize
        gridY == ((y + draw.offY) \div gridSize) * gridSize
        dx == gridX - x
        dy == gridY - y
    IN  [made |-> TRUE, x |-> x, y |-> y, gridX |-> gridX, gridY |-> gridY,
         accepted |-> dx * dx + dy * dy < radius * radius]

\* the spawn attempt of render, lines 89-102
SpawnAttempt(draw) ==
    LET x == mousePos.x
        y == mousePos.y
        gridX == ((x + draw.offX) \div gridSize) * gridSize
        gridY == ((y + draw.offY) \div gridSize) * gridSize
        dx == gridX + gridSize \div 2 - x
        dy == gridY + gridSize \div 2 - y
    IN  [made |-> TRUE, x |-> x, y |-> y, gridX |-> gridX, gridY |-> gridY,
         accepted |-> dx * dx + dy * dy < radius * radius]

NewSquare(att, draw) ==
    [x |-> att.gridX, y |-> att.gridY, opacity |-> draw.opacity,
     life |-> LifeOne, decay |-> draw.decay]

FillRect(sq) == [x |-> sq.x, y |-> sq.y, alpha |-> FMul(sq.opacity, sq.life)]

\* faulty variant: sq.life -= sq.decay * 0.5, to the unit below
AgedHalf(sq) ==
    [sq EXCEPT !.life = FSub(sq.life, Dbl(sq.decay.hi \div 2,
                                          (sq.decay.lo + (sq.decay.hi % 2) * Limb) \div 2))]

\* sq after sq.life -= sq.decay
Aged(sq) == [sq EXCEPT !.life = FSub(sq.life, sq.decay)]

\* faulty variant: the splice branch is never taken
LiveAlways(sq) == TRUE

\* faulty variant: the test is made one decrement ahead: sq.life - sq.decay <= 0
LiveEarly(sq) == ~LeqZero(SubExact(sq.life, sq.decay))

\* the test of the loop body on the aged square: FALSE takes the splice branch
Live(sq) == ~LeqZero(sq.life)

\* the fillRect calls of the loop: it visits the squares from the last to the
\* first and paints those it keeps
PaintCalls(kept) == [j \in 1..Len(kept) |-> FillRect(kept[Len(kept) + 1 - j])]

\* the update-and-draw loop on the aged squares.  It runs from the last index
\* down, so a splice at i moves only squares already visited: every square is
\* aged once and the squares that stay keep their order.
LoopResult(aged, kept) ==
    [squares |-> kept, painted |-> PaintCalls(kept), removed |-> Len(aged) - Len(kept)]

AdvanceLoop(aged) == LoopResult(aged, SelectSeq(aged, Live))

\* clearRect, then the loop over the whole collection
UpdateAndDraw(sqs) == AdvanceLoop([j \in 1..Len(sqs) |-> Aged(sqs[j])])

\* requestAnimationFrame's return value: a non-zero handle that names no other
\* pending callback.  The program keeps one handle, animationFrameId.current, so
\* a value that is neither pending nor kept stands for a fresh one.
NewHandle(pend) == CHOOSE h \in 1..3 : h \notin pend /\ h # animationFrameId

\* faulty variant: the next frame is requested only while there is something to do
renderEndIdle(att, loop, h, pend) ==
    /\ attempt' = att
    /\ squares' = loop.squares
    /\ painted' = loop.painted
    /\ removed' = loop.removed
    /\ animationFrameId' = IF isHovering \/ loop.squares # <<>> THEN h ELSE animationFrameId
    /\ pending' = IF isHovering \/ loop.squares # <<>> THEN pend \cup {h} ELSE pend

\* faulty variant: the next frame is requested twice and the second handle kept
renderEndTwice(att, loop, h, pend) ==
    /\ attempt' = att
    /\ squares' = loop.squares
    /\ painted' = loop.painted
    /\ removed' = loop.removed
    /\ animationFrameId' = h
    /\ pending' = pend \cup {h, CHOOSE g \in 1..3 : g \notin pend /\ g # h}

\* the end of render: the loop's result is stored and the next frame requested
renderEnd(att, loop, h, pend) ==
    /\ attempt' = att
    /\ squares' = loop.squares
    /\ painted' = loop.painted
    /\ removed' = loop.removed
    /\ animationFrameId' = h
    /\ pending' = pend \cup {h}

\* squares.current after the spawn step
Pushed(att, draw) ==
    IF att.made /\ att.accepted THEN Append(squares, NewSquare(att, draw)) ELSE squares

\* faulty variant: the spawn step comes after the update-and-draw loop
renderSpawnLast(att, draw, pend) ==
    renderEnd(att,
              [UpdateAndDraw(squares) EXCEPT
                 !.squares = IF att.made /\ att.accepted
                             THEN Append(@, NewSquare(att, draw))
                             ELSE @],
              NewHandle(pend), pend)

renderFrom(att, draw, pend) ==
    renderEnd(att, UpdateAndDraw(Pushed(att, draw)), NewHandle(pend), pend)

\* faulty variant: the spawn step is not guarded by the hover flag
renderAlways(draw, pend) ==
    renderFrom(IF draw.spawn THEN SpawnAttempt(draw) ELSE NoAttempt, draw, pend)

\* faulty variant: the spawn step is guarded by the render-state visibility,
\* not by the hover reference
renderByOpacity(draw, pend) ==
    renderFrom(IF opacity = 1 /\ draw.spawn THEN SpawnAttempt(draw) ELSE NoAttempt,
               draw, pend)

\* one run of render with the host's callback list pend
render(draw, pend) ==
    renderFrom(IF isHovering /\ draw.spawn THEN SpawnAttempt(draw) ELSE NoAttempt,
               draw, pend)

\* faulty variant: the effect body without the canvas and context guards
MountNoGuard(draw) ==
    /\ phase = "rendered"
    /\ phase' = "mounted"
    /\ canvasSize' = resizeCanvas(layout)
    /\ resizeListener' = TRUE
    /\ render(draw, pending)
    /\ UNCHANGED <<iconProps, icon, hoverBy, surface, containerAvail, layout, position, opacity, mousePos,
                   isHovering, ticks, entered, since>>

\* the effect body, run once after the first commit
Mount(draw) ==
    /\ phase = "rendered"
    /\ phase' = "mounted"
    /\ IF surface # "ok"
       THEN UNCHANGED <<canvasSize, resizeListener, attempt, removed, squares,
                        painted, animationFrameId, pending>>
       ELSE /\ canvasSize' = resizeCanvas(layout)
            /\ resizeListener' = TRUE
            /\ render(draw, pending)
    /\ UNCHANGED <<iconProps, icon, hoverBy, surface, containerAvail, layout, position, opacity, mousePos,
                   isHovering, ticks, entered, since>>

\* the host runs a pending frame callback
Frame(draw) ==
    /\ \E h \in pending : render(draw, pending \ {h})
    /\ UNCHANGED <<iconProps, icon, hoverBy, surface, containerAvail, phase, layout, canvasSize, position,
                   opacity, mousePos, isHovering, resizeListener, entered, since>>

Tick(draw) == Frame(draw) /\ ticks' = ticks + 1

\* a window resize: the container gets the layout box, registered listeners run
Resize(box) ==
    /\ layout' = box
    /\ canvasSize' = IF resizeListener THEN resizeCanvas(box) ELSE canvasSize
    /\ UNCHANGED <<iconProps, icon, hoverBy, surface, containerAvail, phase, position, opacity, mousePos,
                   isHovering, squares, animationFrameId, pending, resizeListener,
                   painted, attempt, removed, ticks, entered, since>>

\* faulty variant: the cleanup removes the listener and leaves the frame request
CleanupNoCancel ==
    /\ phase = "mounted"
    /\ phase' = "unmounted"
    /\ resizeListener' = FALSE
    /\ UNCHANGED <<iconProps, icon, hoverBy, surface, containerAvail, layout, canvasSize, position, opacity,
                   mousePos, isHovering, squares, animationFrameId, pending, painted,
                   attempt, removed, ticks, entered, since>>

\* the effect's cleanup, run at unmount (an effect that returned early has none)
Cleanup ==
    /\ phase = "mounted"
    /\ phase' = "unmounted"
    /\ IF surface # "ok"
       THEN UNCHANGED <<resizeListener, pending>>
       ELSE /\ resizeListener' = FALSE
            /\ pending' = pending \ {animationFrameId}
    /\ UNCHANGED <<iconProps, icon, hoverBy, surface, containerAvail, layout, canvasSize, position, opacity,
                   mousePos, isHovering, squares, animationFrameId, painted,
                   attempt, removed, ticks, entered, since>>

---------------------------------------------------------------------------
(* Spec: every interleaving of the handlers, resizes, frames and unmount, for
   a bounded number of frames *)

MaxTicks == 3

SpecDecays == {Decay001, Decay04}
SpecOpacities == {Opacity05}
SpecDraws ==
    {Draw(FALSE, [x |-> 0, y |-> 0], Opacity05, Decay001)}
    \cup {Draw(TRUE, off, op, dec) : off \in Offsets, op \in SpecOpacities, dec \in SpecDecays}

Init ==
    /\ iconProps = NoProps
    /\ icon = Null
    /\ surface \in {"ok", "nocanvas", "noctx"}
    /\ containerAvail \in BOOLEAN
    /\ phase = "rendered"
    /\ layout = InitialLayout
    /\ canvasSize = DefaultCanvas
    /\ position = InitialPosition
    /\ opacity = 0
    /\ mousePos = Sentinel
    /\ isHovering = FALSE
    /\ squares = <<>>
    /\ animationFrameId = 0
    /\ pending = {}
    /\ resizeListener = FALSE
    /\ painted = <<>>
    /\ attempt = NoAttempt
    /\ removed = 0
    /\ ticks = 0
    /\ entered = FALSE
    /\ hoverBy = "mount"
    /\ since = "mount"

Next ==
    \/ \E d \in SpecDraws : Mount(d)
    \/ \E e \in ClientPoints : handleMouseMove(e)
    \/ handleMouseEnter
    \/ handleMouseLeave
    \/ \E d \in SpecDraws : ticks < MaxTicks /\ Tick(d)
    \/ \E box \in Layouts : Resize(box)
    \/ Cleanup

Spec == Init /\ [][Next]_vars

---------------------------------------------------------------------------
(* SpecDecay: the update-and-draw loop on one constructed particle of life 1.0,
   frame after frame with the pointer away *)

AllDecays == {Decay001, Decay0125, Decay025, Decay04, Decay005}
AllOpacities == {Opacity025, Opacity05}

NoDraw == Draw(FALSE, [x |-> 0, y |-> 0], Opacity05, Decay001)

InitDecay ==
    /\ iconProps = NoProps
    /\ icon = Null
    /\ surface = "ok"
    /\ containerAvail = TRUE
    /\ phase = "mounted"
    /\ layout = InitialLayout
    /\ canvasSize = [w |-> layout.w, h |-> layout.h]
    /\ position = InitialPosition
    /\ opacity = 0
    /\ mousePos = Sentinel
    /\ isHovering = FALSE
    /\ \E op \in AllOpacities, dec \in AllDecays :
          squares = << [x |-> 80, y |-> 40, opacity |-> op, life |-> LifeOne,
                        decay |-> dec] >>
    /\ animationFrameId = 1
    /\ pending = {1}
    /\ resizeListener = TRUE
    /\ painted = <<>>
    /\ attempt = NoAttempt
    /\ removed = 0
    /\ ticks = 0
    /\ entered = FALSE
    /\ hoverBy = "mount"
    /\ since = "mount"

DecayFrames == 102

NextDecay == ticks < DecayFrames /\ Tick(NoDraw)

SpecDecay == InitDecay /\ [][NextDecay]_vars

---------------------------------------------------------------------------
(* SpecHover: long runs.  The component is mounted and the pointer has entered
   and moved to HoverPoint.  While it hovers every frame spawns, with one decay
   per burst, until the collection is in its steady state; after the leave the
   frames drain the collection. *)

HoverDecays == {Decay001, Decay04}
HoverPoint == [x |-> 108, y |-> 116]
HoverOffset == [x |-> 150, y |-> -30]

InitHover ==
    /\ iconProps = NoProps
    /\ icon = Null
    /\ surface = "ok"
    /\ containerAvail = TRUE
    /\ phase = "mounted"
    /\ layout = InitialLayout
    /\ canvasSize = [w |-> layout.w, h |-> layout.h]
    /\ position = [x |-> HoverPoint.x - layout.left, y |-> HoverPoint.y - layout.top]
    /\ opacity = 1
    /\ mousePos = position
    /\ isHovering = TRUE
    /\ squares = <<>>
    /\ animationFrameId = 1
    /\ pending = {1}
    /\ resizeListener = TRUE
    /\ painted = <<>>
    /\ attempt = NoAttempt
    /\ removed = 0
    /\ ticks = 0
    /\ entered = TRUE
    /\ hoverBy = "enter"
    /\ since = "move"

NextHover ==
    \/ handleMouseLeave
    \/ \E dec \in HoverDecays :
          /\ IF squares = <<>> THEN TRUE ELSE dec = squares[Len(squares)].decay
          /\ Frame(Draw(TRUE, HoverOffset, Opacity05, dec))
          /\ UNCHANGED ticks

SpecHover == InitHover /\ [][NextHover]_vars

---------------------------------------------------------------------------
(* SpecLoop: the frame loop under the host's scheduling.  The host runs a
   pending frame callback at every display refresh (weak fairness of FrameDue); the pointer
   enters and leaves, the component may unmount.  At most MaxLive particles are
   live at a time. *)

MaxLive == 2

LoopDraws == {NoDraw, Draw(TRUE, HoverOffset, Opacity05, Decay04)}

LoopFrame ==
    \E d \in LoopDraws :
       /\ d.spawn => Len(squares) < MaxLive
       /\ Frame(d)
       /\ UNCHANGED ticks

NextLoop ==
    \/ handleMouseEnter
    \/ handleMouseLeave
    \/ LoopFrame
    \/ Cleanup

\* the step of the host that runs a pending callback, as seen on the handle:
\* render ends by storing a new one.  A step of NextLoop changes
\* animationFrameId exactly when it is a LoopFrame step, and LoopFrame is
\* enabled exactly when a callback is pending.
FrameDue ==
    /\ pending # {}
    /\ animationFrameId' \in 1..3
    /\ animationFrameId' # animationFrameId

SpecLoop == InitHover /\ [][NextLoop]_vars /\ WF_animationFrameId(FrameDue)

---------------------------------------------------------------------------
(* SpecPointer: the pointer handlers over several event positions and container
   boxes, interleaved with mount, resizes, a bounded number of frames and
   unmount *)

MaxPointerTicks == 1

PointerPoints == { [x |-> 108, y |-> 116], [x |-> 30, y |-> 250] }
PointerLayouts == Layouts \cup { [left |-> 40, top |-> 0, w |-> 400, h |-> 200] }
PointerDraws == {NoDraw, Draw(TRUE, HoverOffset, Opacity05, Decay04)}

NextPointer ==
    \/ \E d \in PointerDraws : Mount(d)
    \/ \E e \in PointerPoints : handleMouseMove(e)
    \/ handleMouseEnter
    \/ handleMouseLeave
    \/ \E d \in PointerDraws : ticks < MaxPointerTicks /\ Tick(d)
    \/ \E box \in PointerLayouts : Resize(box)
    \/ Cleanup

SpecPointer == Init /\ [][NextPointer]_vars

---------------------------------------------------------------------------
(* SpecIcon: ServiceIcon called with the three supported names and with other
   strings, at the sizes 8, 16, ... *)

MaxIconSteps == 16

IconNames == {"Claude", "OpenAI", "Gemini", "claude", "ChatGPT", "Anthropic", ""}
IconSizes == {8 * k : k \in 1..MaxIconSteps}

InitIcon == Init /\ surface = "ok" /\ containerAvail

NextIcon == \E name \in IconNames, size \in IconSizes : RenderIcon(name, size)

SpecIcon == InitIcon /\ [][NextIcon]_vars

---------------------------------------------------------------------------
(* SpecSpawn: the spawn step over a grid of random offsets, around the pointer
   positions a move gives and around the sentinel, for a bounded number of
   frames *)

MaxSpawnTicks == 1

SpawnOffsets == {-200, -120, -30, 0, 150, 180, 199}
SpawnDraws ==
    {Draw(TRUE, [x |-> ox, y |-> oy], Opacity05, Decay025) :
        ox \in SpawnOffsets, oy \in SpawnOffsets}

NextSpawn ==
    \/ \E e \in PointerPoints : handleMouseMove(e)
    \/ handleMouseEnter
    \/ handleMouseLeave
    \/ \E d \in SpawnDraws : ticks < MaxSpawnTicks /\ Tick(d)

SpecSpawn == InitHover /\ [][NextSpawn]_vars

---------------------------------------------------------------------------
(* SpecDrain: a hover burst as in SpecHover, then a leave after which the
   pointer stays away; ticks counts the frames run since the leave *)

DrainFrames == 101

NextDrain ==
    \/ handleMouseLeave
    \/ \E dec \in HoverDecays :
          /\ isHovering
          /\ IF squares = <<>> THEN TRUE ELSE dec = squares[Len(squares)].decay
          /\ Frame(Draw(TRUE, HoverOffset, Opacity05, dec))
          /\ UNCHANGED ticks
    \/ ~isHovering /\ ticks < DrainFrames /\ Tick(NoDraw)

SpecDrain == InitHover /\ [][NextDrain]_vars

---------------------------------------------------------------------------
(* Claims *)

\* C1: after the update-and-draw step of a frame every square of the collection
\* has 0 < life <= 1.0, and the frame's fillRect calls are exactly those of the
\* squares that stay, each with alpha = opacity * life > 0: a square whose life
\* drops to <= 0 is removed in that frame and is not painted in it.
C1_LiveInRange ==
    /\ \A i \in 1..Len(squares) :
          ~LeqZero(squares[i].life) /\ DblLeq(squares[i].life, LifeOne)
    /\ painted = PaintCalls(squares)
    /\ \A j \in 1..Len(painted) : ~LeqZero(painted[j].alpha)

\* a frame of a hovering pointer has just removed a square and painted the rest
C1_Witness == isHovering /\ removed > 0 /\ squares # <<>> /\ painted # <<>>

\* a step in which render ran: it stores a new frame handle
RenderStep == animationFrameId' # animationFrameId

\* C2: a step taken while the hover flag is false adds no particle, and as long
\* as no pointer-enter has been handled the collection is empty.
C2_NoSpawnWithoutHover ==
    /\ [][~isHovering => Len(squares') <= Len(squares)]_vars
    /\ [](~entered => squares = <<>>)

\* three runs of render since mount, no pointer-enter, no particle
C2_Witness ==
    /\ surface = "ok" /\ phase = "mounted" /\ ticks >= 2
    /\ ~entered /\ squares = <<>>

\* the cell of sq has its centre within the radius of the sentinel and lies
\* left of and above the surface
NearSentinel(sq) ==
    /\ (sq.x + gridSize \div 2 - Sentinel.x) * (sq.x + gridSize \div 2 - Sentinel.x)
       + (sq.y + gridSize \div 2 - Sentinel.y) * (sq.y + gridSize \div 2 - Sentinel.y)
       < radius * radius
    /\ sq.x + gridSize <= 0
    /\ sq.y + gridSize <= 0

\* C3 as claimed: after a pointer-leave and until a pointer-move, no step adds a
\* particle, also when the hover flag is true again.
C3_Original == [][since = "leave" => Len(squares') <= Len(squares)]_vars

\* C3 as amended: after a pointer-leave and until a pointer-move the pointer
\* reference is the sentinel; a step adds a particle only when the hover flag is
\* true again, and the particle is placed around the sentinel, off the surface.
C3_SpawnAfterLeave ==
    /\ [](since = "leave" => mousePos = Sentinel)
    /\ [][(since = "leave" /\ Len(squares') > Len(squares)) =>
             /\ isHovering
             /\ Len(squares') = Len(squares) + 1
             /\ NearSentinel(squares'[Len(squares')])]_vars

\* a particle spawned at the pointer, then, after leave and enter with no move,
\* one spawned around the sentinel
C3_Witness ==
    /\ since = "leave" /\ isHovering /\ Len(squares) >= 2
    /\ squares[1].x >= 0
    /\ NearSentinel(squares[Len(squares)])

\* C4: a spawn attempt made after a pointer-leave and before the next
\* pointer-move reads the sentinel from the pointer reference.
C4_AttemptReadsSentinel ==
    [][(since = "leave" /\ RenderStep) =>
          IF attempt'.made
          THEN attempt'.x = Sentinel.x /\ attempt'.y = Sentinel.y
          ELSE TRUE]_vars

\* a particle spawned at the pointer, then, after leave and enter with no move,
\* an attempt at the sentinel that the mask rejects
C4_Witness ==
    /\ since = "leave" /\ position # InitialPosition /\ squares # <<>>
    /\ squares[1].x >= 0
    /\ attempt.made /\ ~attempt.accepted /\ attempt.x = Sentinel.x

\* C5: the cleanup cancels the pending frame callback and removes the resize
\* listener; after unmount nothing is pending, no frame runs, and the canvas and
\* the collection are not written again.
C5_NoWorkAfterUnmount ==
    /\ [](phase = "unmounted" => pending = {} /\ ~resizeListener)
    /\ [][phase = "unmounted" =>
             UNCHANGED <<canvasSize, painted, squares, animationFrameId, pending,
                         attempt, removed, ticks>>]_vars

\* unmounted with particles left, and a later window resize that the canvas
\* did not follow
C5_Witness ==
    /\ phase = "unmounted" /\ surface = "ok" /\ containerAvail
    /\ squares # <<>> /\ canvasSize.w # layout.w

\* C6: while mounted exactly one frame callback is pending; every run of render
\* requests the next one, whatever the hover flag and the collection; only the
\* unmount empties the host's list; so frames recur until the unmount.
C6_LoopRuns ==
    /\ [](phase = "mounted" => pending = {animationFrameId})
    /\ [][RenderStep => pending' = {animationFrameId'}]_vars
    /\ [][(pending # {} /\ pending' = {}) => phase' = "unmounted"]_vars
    /\ ([]<><<RenderStep>>_vars \/ <>(phase = "unmounted"))

\* a frame has run with the pointer away and the collection empty, and the
\* next one is pending
C6_Witness ==
    /\ phase = "mounted" /\ ~isHovering /\ squares = <<>> /\ removed > 0
    /\ pending = {animationFrameId}

\* C9: a window resize sets the canvas to the container's layout box and changes
\* nothing else: the particles, the hover flag, the pointer reference and the
\* render state are as before.  The canvas size is a function of the box alone,
\* so a repeated resize changes nothing.
C9_ResizeOnlyCanvas ==
    /\ [](resizeListener /\ containerAvail =>
             canvasSize = [w |-> layout.w, h |-> layout.h])
    /\ [][layout' # layout =>
             /\ UNCHANGED <<squares, isHovering, mousePos, position, opacity,
                            painted, animationFrameId, pending, phase>>
             /\ canvasSize' = IF resizeListener /\ containerAvail
                              THEN [w |-> layout'.w, h |-> layout'.h]
                              ELSE canvasSize]_vars

\* the canvas has followed a resize while particles are live
C9_Witness ==
    /\ resizeListener /\ containerAvail /\ layout # InitialLayout
    /\ squares # <<>> /\ canvasSize = [w |-> layout.w, h |-> layout.h]

\* C10 as claimed: whenever the hover flag is false the pointer reference is
\* the sentinel, for any order of the pointer events.
C10_Original == ~isHovering => mousePos = Sentinel

\* C10 as amended: the pointer reference is the sentinel whenever no
\* pointer-move has been handled since the last pointer-leave (or since mount),
\* in particular after every leave; a pointer-move stores its coordinates
\* whatever the hover flag, so a move handled while the flag is false leaves a
\* real position with the flag false.
C10_SentinelUntilMove ==
    /\ since # "move" => mousePos = Sentinel
    /\ since = "move" => mousePos = position /\ mousePos # Sentinel

\* idle after a move and a leave: the reference is back at the sentinel
C10_Witness ==
    /\ ~isHovering /\ since = "leave" /\ position # InitialPosition
    /\ mousePos = Sentinel

\* C7: the collection never holds more than 100 squares, and no step adds more
\* than one.
C7_CountBounded ==
    /\ [](Len(squares) <= 100)
    /\ [][Len(squares') <= Len(squares) + 1]_vars

\* the steady state of continuous hovering with decay 0.01: one square in, one out
C7_Witness ==
    /\ isHovering /\ removed = 1 /\ Len(squares) = 99
    /\ squares[1].decay = Decay001

\* the real number k * d for a small natural k (k * d < 4), by 15-bit digits
Times(k, d) ==
    LET p0 == k * (d.lo % 2^15)
        p1 == k * (d.lo \div 2^15) + (p0 \div 2^15)
    IN  Dbl(k * d.hi + (p1 \div 2^15), ((p1 % 2^15) * 2^15) + (p0 % 2^15))

\* the real number 1.0 - k * d
ExactAfter(d, k) == SubExact(LifeOne, Times(k, d))

\* the step that empties the collection of its one square
RemovalStep == squares # <<>> /\ squares' = <<>>

\* C8 as claimed: a particle of life 1.0 and decay d is removed on the first
\* advance step k with 1.0 - k*d <= 0 and on no earlier step; with decay 0.05
\* it is in the collection after 19 steps and absent after the 20th.
C8_Original ==
    [][RemovalStep =>
         /\ LeqZero(ExactAfter(squares[1].decay, ticks'))
         /\ ~LeqZero(ExactAfter(squares[1].decay, ticks))
         /\ (squares[1].decay = Decay005 => ticks' = 20)]_vars

\* C8 as amended: the particle is removed on the first step at which the life
\* obtained by repeated double-precision subtraction is <= 0, which is the
\* first k with 1.0 - k*d <= 0 or the step before or after it; until then its
\* life is positive and it is painted with alpha opacity * life.  With decay
\* 0.05 the step is the 20th: after 19 steps the particle is in the collection
\* with a life just below 0.05.
C8_RemovalStep ==
    /\ [](squares # <<>> =>
            /\ ~LeqZero(squares[1].life)
            /\ ticks > 0 => painted = <<[x |-> squares[1].x, y |-> squares[1].y,
                                         alpha |-> FMul(squares[1].opacity,
                                                        squares[1].life)]>>)
    /\ [][RemovalStep =>
            /\ LeqZero(SubExact(squares[1].life, squares[1].decay))
            /\ LeqZero(ExactAfter(squares[1].decay, ticks' + 1))
            /\ ~LeqZero(ExactAfter(squares[1].decay, ticks - 1))
            /\ squares[1].decay = Decay005 =>
                  /\ ticks' = 20
                  /\ DblLeq(squares[1].life, Decay005)
                  /\ SubExact(Decay005, squares[1].life).hi = 0]_vars

\* the particle of decay 0.05 after 19 frames: in the collection and painted
C8_Witness ==
    /\ ticks = 19 /\ squares # <<>> /\ painted # <<>>
    /\ squares[1].decay = Decay005

\* C11: when the canvas or its 2D context is unavailable at mount the effect
\* returns before any setup: for the whole lifetime no frame callback is
\* requested or run, no resize listener is registered, the canvas keeps its size,
\* nothing is painted and the collection stays empty, whatever the pointer does.
C11_SetupAborts ==
    surface # "ok" =>
       /\ pending = {} /\ animationFrameId = 0 /\ ticks = 0
       /\ ~resizeListener /\ canvasSize = DefaultCanvas
       /\ squares = <<>> /\ painted = <<>> /\ attempt = NoAttempt

\* mounted without a context, the pointer has entered and moved, the window
\* has been resized
C11_Witness ==
    /\ surface = "noctx" /\ phase = "mounted" /\ containerAvail
    /\ isHovering /\ since = "move" /\ layout # InitialLayout

\* a step in which handleMouseMove wrote: a move is the only handler that sets
\* since to "move", and one that repeats the stored coordinates changes nothing
MoveStep == since' = "move" /\ (since # "move" \/ position' # position)

\* C12: a pointer-move with the container available stores the event position
\* minus the origin of the container's bounding box in both the render-state
\* position and the pointer reference, sets the visibility to 1 and leaves the
\* hover flag, the collection and the rest of the state as they were; with the
\* container unavailable no move ever changes anything.
C12_MoveEffect ==
    /\ [][MoveStep =>
            /\ containerAvail
            /\ \E e \in PointerPoints :
                  position' = [x |-> e.x - layout.left, y |-> e.y - layout.top]
            /\ mousePos' = position'
            /\ opacity' = 1
            /\ UNCHANGED <<isHovering, squares, painted, animationFrameId, pending,
                           canvasSize, layout, resizeListener, phase, entered>>]_vars
    /\ [](~containerAvail =>
            position = InitialPosition /\ mousePos = Sentinel /\ since # "move")

\* a move at (30,250) over a container whose box starts at (40,0), with the
\* hover flag false and a particle live
C12_Witness ==
    /\ since = "move" /\ position = [x |-> -10, y |-> 250] /\ mousePos = position
    /\ layout.left = 40 /\ opacity = 1 /\ ~isHovering /\ squares # <<>>

\* C13: ServiceIcon returns the icon element of the given name at the given size
\* for each of 'Claude', 'OpenAI' and 'Gemini', and null for every other name.
C13_IconResolved ==
    iconProps.called =>
       IF iconProps.name \in {"Claude", "OpenAI", "Gemini"}
       THEN icon.element = iconProps.name /\ icon.size = iconProps.size
       ELSE icon = Null

\* an unknown name that differs from a supported one by case only, at size 64
C13_Witness ==
    /\ iconProps.called /\ iconProps.name = "claude" /\ iconProps.size = 64
    /\ icon = Null

\* C14: handlers and ticks run one at a time, and a tick reads both references
\* when it runs: it attempts a spawn only if the latest of the enter and leave
\* handlers completed before it was an enter, and the attempt's pointer position
\* is the one written by the latest of the move and leave handlers completed
\* before it (the coordinates of the move, the sentinel of the leave or of the
\* mount).
C14_TickReadsLatest ==
    /\ [](isHovering <=> hoverBy = "enter")
    /\ [][RenderStep =>
            IF attempt'.made
            THEN /\ hoverBy = "enter"
                 /\ [x |-> attempt'.x, y |-> attempt'.y] =
                       IF since = "move" THEN position ELSE Sentinel
            ELSE TRUE]_vars

\* a second frame whose attempt is made at the coordinates of the move handled
\* before it, with the flag set by an enter
C14_Witness ==
    /\ ticks >= 2 /\ attempt.made /\ hoverBy = "enter" /\ since = "move"
    /\ attempt.x = position.x /\ attempt.y = position.y /\ attempt.accepted

\* the squared distance from the centre of the cell at (gx, gy) to the point p
CentreDist2(gx, gy, p) ==
    (gx + gridSize \div 2 - p.x) * (gx + gridSize \div 2 - p.x)
    + (gy + gridSize \div 2 - p.y) * (gy + gridSize \div 2 - p.y)

\* the cell [g, g + gridSize) holds a point of [c - radius, c + radius)
CellMeets(g, c) == g < c + radius /\ c - radius < g + gridSize

\* C15: a frame appends at most one square; the appended square has x and y
\* multiples of gridSize, its cell holds a point of the square of side 2 * radius
\* centred on the pointer position read in that frame, and its cell centre is at
\* distance < radius from that position; an attempt whose cell centre is at
\* distance >= radius appends nothing.
C15_SpawnPlacement ==
    [][RenderStep =>
         IF Len(squares') + removed' > Len(squares)
         THEN LET sq == squares'[Len(squares')]
              IN  /\ Len(squares') + removed' = Len(squares) + 1
                  /\ sq.x % gridSize = 0 /\ sq.y % gridSize = 0
                  /\ CellMeets(sq.x, mousePos.x) /\ CellMeets(sq.y, mousePos.y)
                  /\ CentreDist2(sq.x, sq.y, mousePos) < radius * radius
         ELSE attempt'.made =>
                 CentreDist2(attempt'.gridX, attempt'.gridY, mousePos)
                    >= radius * radius]_vars

\* a square appended at offset (-30, 0) from (22,234): the candidate (-8,234)
\* snaps down to the cell (-40,200)
C15_Witness ==
    /\ attempt.made /\ attempt.x = 22 /\ attempt.y = 234
    /\ Len(squares) = 1 /\ squares[1].x = -40 /\ squares[1].y = 200
    /\ ticks = 1

\* C16: the pointer-leave leaves the collection as it is; with the hover flag
\* false from then on, the collection is empty once 100 further frames have run,
\* and an empty collection stays empty.
C16_DrainsAfterLeave ==
    /\ [](~isHovering /\ ticks >= 100 => squares = <<>>)
    /\ [][isHovering /\ ~isHovering' => squares' = squares /\ painted' = painted]_vars
    /\ [][~isHovering /\ squares = <<>> => squares' = <<>>]_vars

\* 98 frames after the leave the square spawned in the last hovering frame,
\* decay 0.01, is the only one left
C16_Witness ==
    /\ ~isHovering /\ ticks = 98 /\ Len(squares) = 1
    /\ squares[1].decay = Decay001

\* C17: the host never holds more than one frame callback of the component; a
\* pending callback is the one animationFrameId names and exists only while the
\* effect is set up; the unmount step leaves none behind.
C17_SinglePending ==
    /\ [](Cardinality(pending) <= 1)
    /\ [](\A h \in pending :
             h = animationFrameId /\ h # 0 /\ phase = "mounted" /\ surface = "ok")
    /\ [][phase = "mounted" /\ phase' = "unmounted" =>
             pending \subseteq {animationFrameId} /\ pending' = {}]_vars

\* unmounted after three frames: the callback pending at the unmount is gone
C17_Witness ==
    /\ phase = "unmounted" /\ surface = "ok" /\ ticks = MaxTicks
    /\ animationFrameId # 0 /\ pending = {}

\* C18 as claimed: the visibility is 1 exactly when the hover flag is true.
C18_Original == (opacity = 1) <=> isHovering

\* C18 as amended: the visibility is 0 or 1; it is 1 whenever the hover flag is
\* true, and it is 1 with the hover flag false exactly when a pointer-move has
\* been handled since the last pointer-leave (or since mount) with no
\* pointer-enter since: the move handler shows the glow without setting the
\* flag.
C18_VisibilityCoversHover ==
    /\ opacity \in {0, 1}
    /\ isHovering => opacity = 1
    /\ (opacity = 1 /\ ~isHovering) <=> (since = "move" /\ hoverBy # "enter")

\* a move handled after a leave: the glow is visible and the flag is false
C18_Witness ==
    /\ opacity = 1 /\ ~isHovering /\ since = "move" /\ hoverBy = "leave"

\* C19: the spawn step precedes the update-and-draw loop of the same frame: a
\* square appended in a frame ends that frame with life 1.0 - decay (as a
\* double) and is the first one painted in it; no square of the collection has
\* life 1.0 after a frame, and every fillRect has an alpha below the square's
\* opacity.
C19_SpawnedIsAged ==
    /\ [][RenderStep /\ Len(squares') + removed' > Len(squares) =>
             LET sq == squares'[Len(squares')]
             IN  /\ sq.life = FSub(LifeOne, sq.decay)
                 /\ painted' # <<>>
                 /\ painted'[1] = FillRect(sq)]_vars
    /\ [](\A i \in 1..Len(squares) :
             /\ squares[i].life # LifeOne
             /\ DblLeq(squares[i].life, SubExact(LifeOne, squares[i].decay)))
    /\ [](Len(painted) = Len(squares) /\
          \A j \in 1..Len(painted) :
             painted[j].alpha.hi < 4 * squares[Len(squares) + 1 - j].opacity.hi)

\* a frame that appended a second square: it has life 1.0 - 0.01, the older one
\* has less
C19_Witness ==
    /\ Len(squares) = 2 /\ attempt.made /\ attempt.accepted
    /\ squares[2].decay = Decay001
    /\ squares[2].life = FSub(LifeOne, Decay001)
    /\ squares[1].life # FSub(LifeOne, squares[1].decay)

====
